---- MODULE Spec2Model ----
(***************************************************************************)
(* A model of src/widgets/peoplePicker.js: the PeoplePicker pane, the      *)
(* address-book lookup (findGroupIndex), group creation (createNewGroup),  *)
(* the GroupPicker list and the GroupBuilder editor, over the shared       *)
(* rdflib store `kb`.                                                      *)
(*                                                                         *)
(* Every node value (a URL, a vocabulary term, a literal) is a sequence of *)
(* strings: URLs are spelled character by character where the code cuts    *)
(* or joins them, vocabulary terms and literals are one-token sequences.   *)
(* A statement is a tuple <<subject, predicate, object, why>>.             *)
(***************************************************************************)
EXTENDS Integers, Sequences, FiniteSets, Bags, TLC

VARIABLES
    kb,                 \* the store: the sequence of statements it holds
    requested,          \* fetcher memory: set of <<url, "fetched"|"failed">>
    typeIndexDoc,       \* the statements the type-index document holds on the web
    element,            \* PeoplePicker.element: the children of the mount point
    selectedGroupNode,  \* PeoplePicker.selectedGroupNode
    pending,            \* bag of asynchronous operations in flight
    creates,            \* one record per createNewGroup call
    nRender,            \* number of containers PeoplePicker.render has created
    opsLeft,            \* user events the page may still deliver
    lastOp              \* what the handler that ran last did

vars == <<kb, requested, typeIndexDoc, element, selectedGroupNode, pending,
          creates, nRender, opsLeft, lastOp>>

-----------------------------------------------------------------------------
(* Bounds *)

MaxOps == 4        \* user events (clicks, drops, typed names, render calls)
MaxEditorOps == 2  \* user events in the GroupBuilder specification
MaxLocateOps == 3  \* user events in the address-book lookup specification
MaxCreate == 1     \* createNewGroup calls
MaxFrag == 2       \* characters of a URL fragment in the type-index inputs

-----------------------------------------------------------------------------
(* Vocabulary of ns and special values *)

Undefined == <<"undefined">>   \* undefined / null: a wildcard in store queries
forClass == <<"solid:forClass">>
instanceP == <<"solid:instance">>
AddressBook == <<"vcard:AddressBook">>
includesGroup == <<"vcard:includesGroup">>
hasMember == <<"vcard:hasMember">>
fn == <<"vcard:fn">>
VGroup == <<"vcard:Group">>
rdfType == <<"rdf:type">>
Person == <<"foaf:Person">>
foafName == <<"foaf:name">>
Organization == <<"foaf:Organization">>
Agent == <<"foaf:Agent">>
OtherClass == <<"vcard:Individual">>
UntitledGroup == <<"Untitled Group">>
DefaultGraph == <<"chrome:theSession">>  \* the store's `why` when none is given

-----------------------------------------------------------------------------
(* Strings *)

BookTtl == <<"b", "o", "o", "k", ".", "t", "t", "l">>
GroupsTtl == <<"g", "r", "o", "u", "p", "s", ".", "t", "t", "l">>
GroupSlash == <<"G", "r", "o", "u", "p", "/">>
DotTtl == <<".", "t", "t", "l">>
HashThis == <<"#", "t", "h", "i", "s">>

\* The characters `.` of a JavaScript regular expression does not match.
LineTerminators == {"\n", "\r"}

\* s holds t at position i
HasAt(s, t, i) ==
    /\ i >= 1
    /\ i + Len(t) - 1 <= Len(s)
    /\ \A k \in 1..Len(t) : s[i + k - 1] = t[k]

Prefix(s, n) == SubSeq(s, 1, n)

-----------------------------------------------------------------------------
(* The store (rdflib IndexedFormula), as this file uses it *)

St(s, p, o, g) == <<s, p, o, g>>

\* one position of a query pattern: undefined and null match anything
Fits(pattern, value) == pattern = Undefined \/ pattern = value

Matches(st, s, p, o, g) ==
    /\ Fits(s, st[1])
    /\ Fits(p, st[2])
    /\ Fits(o, st[3])
    /\ Fits(g, st[4])

RECURSIVE Filter(_, _, _, _, _)
Filter(store, s, p, o, g) ==
    IF store = <<>> THEN <<>>
    ELSE IF Matches(Head(store), s, p, o, g)
         THEN <<Head(store)>> \o Filter(Tail(store), s, p, o, g)
         ELSE Filter(Tail(store), s, p, o, g)

\* kb.statementsMatching / kb.match: the matching statements, in store order
statementsMatching(store, s, p, o, g) == Filter(store, s, p, o, g)

\* kb.any(s, p): the object of the first matching statement, or undefined
any(store, s, p) ==
    LET sts == statementsMatching(store, s, p, Undefined, Undefined)
    IN  IF sts = <<>> THEN Undefined ELSE sts[1][3]

\* kb.add(s, p, o, why): appends; a missing `why` becomes the store's default
kbAdd(store, st) ==
    Append(store, St(st[1], st[2], st[3],
                     IF st[4] = Undefined THEN DefaultGraph ELSE st[4]))

RECURSIVE kbAddAll(_, _)
kbAddAll(store, sts) ==
    IF sts = <<>> THEN store ELSE kbAddAll(kbAdd(store, Head(sts)), Tail(sts))

\* kb.remove(st) throws when no statement matches st
CanRemove(store, st) ==
    statementsMatching(store, st[1], st[2], st[3], st[4]) # <<>>

\* kb.remove(st): removes the first statement matching st
RECURSIVE kbRemove(_, _)
kbRemove(store, st) ==
    IF store = <<>> THEN <<>>
    ELSE IF Matches(Head(store), st[1], st[2], st[3], st[4])
         THEN Tail(store)
         ELSE <<Head(store)>> \o kbRemove(Tail(store), st)

\* getWithDefault(subject, predicate, defaultValue)
getWithDefault(store, subject, predicate, defaultValue) ==
    LET object == any(store, subject, predicate)
    IN  IF object # Undefined THEN object ELSE defaultValue

Bracketed(value) == <<"[">> \o value \o <<"]">>

-----------------------------------------------------------------------------
(* findGroupIndex: the address-book lookup *)

TypeIndexUrl == <<"https://alice.example/settings/typeIndex.ttl">>
FetchError == <<"Error", "fetch failed">>
NoAddressBookError == <<"Error", "no address book registered in the solid type index">>
IncompleteRegistrationError == <<"Error", "incomplete address book registration">>
TypeError == <<"TypeError", "Cannot read property 'object' of undefined">>
NoError == <<>>

\* /book\.ttl(#.*)?$/ matches at position i of url
BookRegexMatchesAt(url, i) ==
    /\ HasAt(url, BookTtl, i)
    /\ LET j == i + Len(BookTtl)
       IN  \/ j > Len(url)
           \/ /\ url[j] = "#"
              /\ \A k \in (j + 1)..Len(url) : url[k] \notin LineTerminators

\* bookUrl.replace(/book\.ttl$/, ''): no fragment allowed
bookBaseUrlOf_NoFragment(bookUrl) ==
    IF HasAt(bookUrl, BookTtl, Len(bookUrl) - Len(BookTtl) + 1)
    THEN Prefix(bookUrl, Len(bookUrl) - Len(BookTtl))
    ELSE bookUrl

\* bookUrl.replace(/book\.ttl(#.*)?$/, ''): the leftmost match is cut
bookBaseUrlOf(bookUrl) ==
    LET starts == {i \in 1..Len(bookUrl) : BookRegexMatchesAt(bookUrl, i)}
    IN  IF starts = {} THEN bookUrl
        ELSE Prefix(bookUrl, (CHOOSE i \in starts : \A k \in starts : i <= k) - 1)

\* the registrations of any class
bookRegistrations_AnyClass(store) ==
    statementsMatching(store, Undefined, forClass, Undefined, Undefined)

bookRegistrations(store) ==
    statementsMatching(store, Undefined, forClass, AddressBook, Undefined)

\* What the callback of findGroupIndex does with the fetch result `ok` and
\* the store: how the promise settles, and what the callback throws.
findGroupIndex(ok, store) ==
    LET regs == bookRegistrations(store)
        registrationSubject == regs[1][1]
        instance == statementsMatching(store, registrationSubject, instanceP,
                                       Undefined, Undefined)
        bookUrl == instance[1][3]
        bookBaseUrl == bookBaseUrlOf(bookUrl)
        groupIndexUrl == bookBaseUrl \o GroupsTtl
        groupContainerUrl == bookBaseUrl \o GroupSlash
        rejected(err, exc) ==
            [settled |-> "rejected", error |-> err, thrown |-> exc,
             bookBaseUrl |-> Undefined, groupIndexUrl |-> Undefined,
             groupContainerUrl |-> Undefined]
    IN  IF ~ok THEN rejected(FetchError, NoError)
        ELSE IF Len(regs) < 1 THEN rejected(NoAddressBookError, NoError)
        ELSE IF Len(instance) = 0
             \* reject(...) without return: instance[0].object then throws
             THEN rejected(IncompleteRegistrationError, TypeError)
        ELSE [settled |-> "resolved", error |-> NoError, thrown |-> NoError,
              bookBaseUrl |-> bookBaseUrl, groupIndexUrl |-> groupIndexUrl,
              groupContainerUrl |-> groupContainerUrl]

-----------------------------------------------------------------------------
(* The documents on the web, and the fetcher *)

HomeBase == <<"h", "/">>                       \* the address book's base URL
HomeBookNode == HomeBase \o BookTtl \o HashThis
HomeGroupIndexUrl == HomeBase \o GroupsTtl
Friends == HomeBase \o GroupSlash \o <<"f">> \o DotTtl \o HashThis
FriendsGraph == HomeBase \o GroupSlash \o <<"f">> \o DotTtl
Bob == <<"https://bob.example/profile#me">>    \* a Person
Amy == <<"https://amy.example/profile#me">>    \* an Agent and a Person
Acme == <<"https://acme.example/#us">>         \* an Organization
Zed == <<"https://zed.example/#me">>           \* declares no type
WebIds == {Bob, Amy, Acme, Zed}
Reg1 == <<"#registration1">>
Reg2 == <<"#registration2">>

Registration(subject, class, url) ==
    << St(subject, forClass, class, TypeIndexUrl),
       St(subject, instanceP, url, TypeIndexUrl) >>

GroupIndexDoc ==
    << St(HomeBookNode, includesGroup, Friends, HomeGroupIndexUrl),
       St(Friends, rdfType, VGroup, HomeGroupIndexUrl),
       St(Friends, fn, <<"Friends">>, HomeGroupIndexUrl) >>

\* the statements of the document at url
WebDoc(url) ==
    CASE url = TypeIndexUrl -> typeIndexDoc
      [] url = HomeGroupIndexUrl -> GroupIndexDoc
      [] url = Bob -> << St(Bob, rdfType, Person, Bob),
                         St(Bob, foafName, <<"Bob">>, Bob) >>
      [] url = Amy -> << St(Amy, rdfType, Agent, Amy),
                         St(Amy, rdfType, Person, Amy) >>
      [] url = Acme -> << St(Acme, rdfType, Organization, Acme),
                          St(Acme, foafName, <<"Acme">>, Acme) >>
      [] OTHER -> <<>>

\* kb.fetcher.nowOrWhenFetched(url, callback): the values `ok` can take.
\* The fetcher remembers what it fetched and what failed.
FetchResults(url) ==
    IF <<url, "fetched">> \in requested THEN {TRUE}
    ELSE IF <<url, "failed">> \in requested THEN {FALSE}
    ELSE BOOLEAN

\* the store once the fetch of url has ended with `ok`
Loaded(url, ok) ==
    IF ok /\ <<url, "fetched">> \notin requested
    THEN kb \o WebDoc(url) ELSE kb

Remembered(url, ok) ==
    requested \cup {<<url, IF ok THEN "fetched" ELSE "failed">>}

-----------------------------------------------------------------------------
(* The mount point, the operations in flight, the record of the last handler *)

NoBuilder ==
    [groupGraph |-> Undefined, groupNode |-> Undefined,
     doneBuildingCb |-> Undefined, groupChangedCb |-> FALSE]

\* a child of an element: kids are <<tag, a, b>> triples
Block(kind, id, builder, text, kids) ==
    [kind |-> kind, id |-> id, builder |-> builder, text |-> text, kids |-> kids]

Container(id, kids) == Block("container", id, NoBuilder, <<>>, kids)

\* errorMessageBlock(document, escape(`${message} (${err})`))
errorMessageBlock(message, err) ==
    Block("error", 0, NoBuilder, <<message>> \o err, <<>>)

Task(op, id, url, builder, node) ==
    [op |-> op, id |-> id, url |-> url, builder |-> builder, node |-> node]

Tasks(op) == {t \in BagToSet(pending) : t.op = op}

NoOp ==
    [op |-> "none", id |-> 0, node |-> Undefined, builder |-> NoBuilder,
     settled |-> "none",
     value |-> Undefined, nodes |-> <<>>, error |-> NoError,
     thrown |-> NoError, calls |-> <<>>, kbBefore |-> <<>>, rendered |-> FALSE]

Tags(block) == {block.kids[i][1] : i \in 1..Len(block.kids)}
Shown(tag) == \E i \in 1..Len(element) : tag \in Tags(element[i])
ErrorShown(message) ==
    \E i \in 1..Len(element) :
        element[i].kind = "error" /\ element[i].text[1] = message

-----------------------------------------------------------------------------
(* PeoplePicker *)

CouldFindYourGroups == "Could find your groups."

\* Group.render(): the label of a group
GroupLabel(store, groupNode) ==
    getWithDefault(store, groupNode, fn, Bracketed(groupNode))

\* PeoplePicker.render() with the selection `sel`, leaving `pend` in flight
\* besides the lookup it may start.
PeoplePicker_render(sel, pend) ==
    LET id == nRender + 1
    IN  /\ nRender' = id
        /\ IF sel # Undefined
           THEN /\ element' =
                     << Container(id,
                          << <<"selectedGroup", sel, GroupLabel(kb', sel)>>,
                             <<"changeGroupButton", Undefined, Undefined>> >>) >>
                /\ pending' = pend
           ELSE /\ element' = << Container(id, <<>>) >>
                /\ pending' = pend (+) SetToBag({
                       Task("findGroupIndex", id, TypeIndexUrl, NoBuilder, Undefined)})

\* picker.render() called by the page
CallRender ==
    /\ opsLeft > 0
    /\ opsLeft' = opsLeft - 1
    /\ kb' = kb
    /\ PeoplePicker_render(selectedGroupNode, pending)
    /\ lastOp' = [NoOp EXCEPT !.op = "render", !.id = nRender + 1,
                              !.rendered = TRUE]
    /\ UNCHANGED <<requested, typeIndexDoc, selectedGroupNode, creates>>

\* click on "Change group"
ClickChangeGroup ==
    /\ opsLeft > 0
    /\ Shown("changeGroupButton")
    /\ opsLeft' = opsLeft - 1
    /\ selectedGroupNode' = Undefined
    /\ kb' = kb
    /\ PeoplePicker_render(Undefined, pending)
    /\ lastOp' = [NoOp EXCEPT !.op = "changeGroup", !.id = nRender + 1,
                              !.rendered = TRUE]
    /\ UNCHANGED <<requested, typeIndexDoc, creates>>

\* PeoplePicker.render without its catch handler
afterFindGroupIndex_NoCatch(el, id, r) ==
    IF r.settled = "resolved"
    THEN << Container(id,
              << <<"chooseExistingGroupButton", r.bookBaseUrl, r.groupIndexUrl>>,
                 <<"createNewGroupButton", r.bookBaseUrl, Undefined>> >>) >>
    ELSE el

\* the then / catch handler of PeoplePicker.render for the container `id`:
\* the children of the mount point it leaves
afterFindGroupIndex(el, id, r) ==
    IF r.settled = "resolved"
    THEN << Container(id,
              << <<"chooseExistingGroupButton", r.bookBaseUrl, r.groupIndexUrl>>,
                 <<"createNewGroupButton", r.bookBaseUrl, Undefined>> >>) >>
    ELSE Append(el, errorMessageBlock(CouldFindYourGroups, r.error))

\* the type-index fetch of a render ends: the callback of findGroupIndex and
\* the then / catch handler of PeoplePicker.render run
FindGroupIndexDone ==
    \E t \in Tasks("findGroupIndex") : \E ok \in FetchResults(t.url) :
        LET r == findGroupIndex(ok, Loaded(t.url, ok))
        IN  /\ kb' = Loaded(t.url, ok)
            /\ requested' = Remembered(t.url, ok)
            /\ pending' = pending (-) SetToBag({t})
            /\ element' = afterFindGroupIndex(element, t.id, r)
            /\ lastOp' = [NoOp EXCEPT !.op = "findGroupIndex", !.id = t.id,
                            !.settled = r.settled,
                            !.nodes = <<r.bookBaseUrl, r.groupIndexUrl,
                                        r.groupContainerUrl>>,
                            !.error = r.error, !.thrown = r.thrown,
                            !.kbBefore = kb]
            /\ UNCHANGED <<typeIndexDoc, selectedGroupNode, creates, nRender,
                           opsLeft>>

\* onSelectGroup calling render() before it stores the group
onSelectGroup_RenderFirst(groupNode, pend) ==
    /\ selectedGroupNode' = groupNode
    /\ PeoplePicker_render(selectedGroupNode, pend)

\* PeoplePicker.onSelectGroup(groupNode)
onSelectGroup(groupNode, pend) ==
    /\ selectedGroupNode' = groupNode
    /\ PeoplePicker_render(groupNode, pend)

-----------------------------------------------------------------------------
(* GroupPicker *)

ErrorLoadingGroups == "There was an error loading your groups."

\* the containers of the mount point that hold a kid with this tag
Holders(tag) ==
    {i \in 1..Len(element) : tag \in Tags(element[i])}

KidsOf(i, tag) ==
    {element[i].kids[k] : k \in {k \in 1..Len(element[i].kids) :
                                     element[i].kids[k][1] = tag}}

\* click on "Pick an existing group": new GroupPicker(container, ...).render()
\* starts loadGroups
ClickChooseExistingGroup ==
    /\ opsLeft > 0
    /\ \E i \in Holders("chooseExistingGroupButton") :
       \E b \in KidsOf(i, "chooseExistingGroupButton") :
            pending' = pending (+) SetToBag({
                Task("loadGroups", element[i].id, b[3], NoBuilder, b[2])})
    /\ opsLeft' = opsLeft - 1
    /\ lastOp' = [NoOp EXCEPT !.op = "chooseExisting"]
    /\ UNCHANGED <<kb, requested, typeIndexDoc, element, selectedGroupNode,
                   creates, nRender>>

RECURSIVE Objects(_)
Objects(sts) ==
    IF sts = <<>> THEN <<>> ELSE <<Head(sts)[3]>> \o Objects(Tail(sts))

\* GroupPicker.loadGroups(): the group nodes it resolves with
loadGroups(store, bookBaseUrl) ==
    Objects(statementsMatching(store, bookBaseUrl \o BookTtl \o HashThis,
                               includesGroup, Undefined, Undefined))

RECURSIVE GroupButtons(_, _)
GroupButtons(store, groupNodes) ==
    IF groupNodes = <<>> THEN <<>>
    ELSE << <<"groupButton", Head(groupNodes), GroupLabel(store, Head(groupNodes))>> >>
             \o GroupButtons(store, Tail(groupNodes))

\* the group-index fetch of a GroupPicker ends: the callback of loadGroups and
\* the then / catch handler of GroupPicker.render run on the picker's
\* container, which may no longer be in the mount point
LoadGroupsDone ==
    \E t \in Tasks("loadGroups") : \E ok \in FetchResults(t.url) :
        LET store == Loaded(t.url, ok)
            groupNodes == loadGroups(store, t.node)
            after(block) ==
                IF block.kind # "container" \/ block.id # t.id THEN block
                ELSE IF ok
                THEN [block EXCEPT !.kids = GroupButtons(store, groupNodes)]
                ELSE [block EXCEPT !.kids = Append(@,
                         <<"error", <<ErrorLoadingGroups>>, FetchError>>)]
        IN  /\ kb' = store
            /\ requested' = Remembered(t.url, ok)
            /\ pending' = pending (-) SetToBag({t})
            /\ element' = [i \in 1..Len(element) |-> after(element[i])]
            /\ lastOp' = [NoOp EXCEPT !.op = "loadGroups", !.id = t.id,
                            !.node = t.node,
                            !.settled = IF ok THEN "resolved" ELSE "rejected",
                            !.nodes = IF ok THEN groupNodes ELSE <<>>,
                            !.error = IF ok THEN NoError ELSE FetchError,
                            !.kbBefore = kb]
            /\ UNCHANGED <<typeIndexDoc, selectedGroupNode, creates, nRender,
                           opsLeft>>

\* click on a group of the list: handleClickGroup(group)
ClickGroup ==
    /\ opsLeft > 0
    /\ \E i \in Holders("groupButton") : \E b \in KidsOf(i, "groupButton") :
            /\ kb' = kb
            /\ onSelectGroup(b[2], pending)
            /\ lastOp' = [NoOp EXCEPT !.op = "selectGroup", !.node = b[2],
                                      !.id = nRender + 1, !.rendered = TRUE]
    /\ opsLeft' = opsLeft - 1
    /\ UNCHANGED <<requested, typeIndexDoc, creates>>

-----------------------------------------------------------------------------
(* createNewGroup *)

Uuids == <<"0a1b2c3d", "4e5f6a7b", "8c9d0e1f", "2a3b4c5d">>  \* uuid.v4().slice(0, 8)
CreateGroupError(url) ==
    <<"Error", "Couldn't create new group.  PATCH failed for">> \o url
ErrorCreatingGroup == "Error creating a new group."

\* the value of a field of a destructured object: undefined when it has none
Field(object, name) ==
    IF name \in DOMAIN object THEN object[name] ELSE Undefined

\* the graphs createNewGroup sends a PATCH to as soon as it is called
patchTargets(groupGraphNode, groupIndexNode) == <<groupGraphNode, groupIndexNode>>

typeStatement(groupNode, namedGraph) == St(groupNode, rdfType, VGroup, namedGraph)
nameStatement(groupNode, namedGraph) == St(groupNode, fn, UntitledGroup, namedGraph)

\* what Promise.all(patchPromises).then(...) resolves with
createNewGroupResult(c) ==
    [groupNode |-> c.groupNode, groupGraphNode |-> c.groupGraphNode]

Range(f) == {f[i] : i \in DOMAIN f}

\* click on "Create a new group": createNewGroup(bookBaseUrl) sends its PATCHes
ClickCreateNewGroup ==
    /\ opsLeft > 0
    /\ Len(creates) < MaxCreate
    /\ \E i \in Holders("createNewGroupButton") :
       \E b \in KidsOf(i, "createNewGroupButton") :
        LET bookBaseUrl == b[2]
            call == Len(creates) + 1
            groupIndexNode == bookBaseUrl \o GroupsTtl
            graphUrl == bookBaseUrl \o GroupSlash \o <<Uuids[call]>> \o DotTtl
            groupGraphNode == graphUrl
            groupNode == graphUrl \o HashThis
            targets == patchTargets(groupGraphNode, groupIndexNode)
        IN  /\ pending' = pending (+) SetToBag(
                   {Task("patch", call, namedGraph, NoBuilder, groupNode) :
                        namedGraph \in Range(targets)})
            /\ creates' = Append(creates,
                   [groupNode |-> groupNode, groupGraphNode |-> groupGraphNode,
                    groupIndexNode |-> groupIndexNode,
                    attempted |-> Range(targets), patched |-> {},
                    failed |-> {}, settled |-> "pending", error |-> NoError,
                    settledAt |-> 0])
            /\ lastOp' = [NoOp EXCEPT !.op = "createNewGroup", !.id = call,
                                      !.node = groupNode]
    /\ opsLeft' = opsLeft - 1
    /\ UNCHANGED <<kb, requested, typeIndexDoc, element, selectedGroupNode,
                   nRender>>

-----------------------------------------------------------------------------
(* GroupBuilder *)

OnSelectGroupCb == <<"PeoplePicker.onSelectGroup">>
PageCb == <<"page">>
Added == <<"added">>
Removed == <<"removed">>
OnlyPeopleError == <<"Error", "Only people supported right now">>
RemoveError == <<"Error", "Statement to be removed is not on store">>
CouldNotLoadWebId == "Could not load the given WebId"
CouldNotRemove == "Could not remove"
Names == {<<"A">>, <<"B">>}

Builder(groupGraph, groupNode, doneBuildingCb, groupChangedCb) ==
    [groupGraph |-> groupGraph, groupNode |-> groupNode,
     doneBuildingCb |-> doneBuildingCb, groupChangedCb |-> groupChangedCb]

\* new Person(personDiv, webIdNode, handleRemove).render(), one per statement
RECURSIVE PersonRows(_, _)
PersonRows(store, sts) ==
    IF sts = <<>> THEN <<>>
    ELSE LET webIdNode == Head(sts)[3]
         IN  << <<"person", webIdNode,
                  getWithDefault(store, webIdNode, foafName,
                                 <<"[<">> \o webIdNode \o <<">]">>)>> >>
                 \o PersonRows(store, Tail(sts))

\* GroupBuilder.render(): the dropContainer that replaces the element's children
GroupBuilder_render(B, store) ==
    Block("dropContainer", 0, B, <<>>,
          << <<"groupNameInput", Undefined,
               getWithDefault(store, B.groupNode, fn, UntitledGroup)>> >>
          \o (IF any(store, B.groupNode, hasMember) # Undefined
              THEN PersonRows(store,
                       statementsMatching(store, B.groupNode, hasMember,
                                          Undefined, Undefined))
              ELSE << <<"copy", Undefined, Undefined>> >>)
          \o << <<"doneBuildingButton", B.groupNode, Undefined>> >>)

\* onGroupChanged never calling groupChangedCb
onGroupChanged_Silent(B, err, changeType, agent) == <<>>

\* this.onGroupChanged(err, changeType, agent): the calls groupChangedCb gets
onGroupChanged(B, err, changeType, agent) ==
    IF B.groupChangedCb THEN << <<err, changeType, agent>> >> ELSE <<>>

\* add: the type check that rejects the promise
notAPerson(store, webIdNode) ==
    LET rdfClass == any(store, webIdNode, rdfType)
    IN  rdfClass = Undefined \/ rdfClass # Person

\* add without its check for a statement already in the store
addMember_NoCheck(store, B, webIdNode) ==
    kbAdd(store, St(B.groupNode, hasMember, webIdNode, B.groupGraph))

\* add with the type check gating the statement
addMember_OnlyPeople(store, B, webIdNode) ==
    IF notAPerson(store, webIdNode) THEN store
    ELSE IF Len(statementsMatching(store, B.groupNode, hasMember, webIdNode,
                                   B.groupGraph)) < 1
    THEN kbAdd(store, St(B.groupNode, hasMember, webIdNode, B.groupGraph))
    ELSE store

\* add: the membership statement is added when the store has none
addMember(store, B, webIdNode) ==
    IF Len(statementsMatching(store, B.groupNode, hasMember, webIdNode,
                              B.groupGraph)) < 1
    THEN kbAdd(store, St(B.groupNode, hasMember, webIdNode, B.groupGraph))
    ELSE store

\* setGroupName(name): every name statement is removed and added again with
\* the new value and the old `why`
RECURSIVE renameAll(_, _, _, _)
renameAll(store, groupNode, name, sts) ==
    IF sts = <<>> THEN store
    ELSE renameAll(kbAdd(kbRemove(store, Head(sts)),
                         St(groupNode, fn, name, Head(sts)[4])),
                   groupNode, name, Tail(sts))

\* setGroupName adding the new name statements without the old `why`
setGroupName_NoWhy(store, groupNode, name) ==
    LET renamed == renameAll(store, groupNode, name,
                       statementsMatching(store, groupNode, fn, Undefined,
                                          Undefined))
    IN  [i \in 1..Len(renamed) |->
            IF renamed[i][1] = groupNode /\ renamed[i][2] = fn
            THEN St(groupNode, fn, name, DefaultGraph) ELSE renamed[i]]

\* setGroupName without its kb.remove(st)
setGroupName_NoRemove(store, groupNode, name) ==
    LET sts == statementsMatching(store, groupNode, fn, Undefined, Undefined)
    IN  kbAddAll(store, [i \in 1..Len(sts) |-> St(groupNode, fn, name, sts[i][4])])

setGroupName(store, groupNode, name) ==
    renameAll(store, groupNode, name,
              statementsMatching(store, groupNode, fn, Undefined, Undefined))

DropContainers == {i \in 1..Len(element) : element[i].kind = "dropContainer"}

\* an identifier is dropped on the drop target: add(uri) starts its fetch
Drop ==
    /\ opsLeft > 0
    /\ \E i \in DropContainers : \E webId \in WebIds :
            pending' = pending (+) SetToBag({
                Task("add", 0, webId, element[i].builder, Undefined)})
    /\ opsLeft' = opsLeft - 1
    /\ lastOp' = [NoOp EXCEPT !.op = "drop"]
    /\ UNCHANGED <<kb, requested, typeIndexDoc, element, selectedGroupNode,
                   creates, nRender>>

\* the fetch of a dropped identifier ends: the callback of add runs, then the
\* catch handler of the drop target
AddDone ==
    \E t \in Tasks("add") : \E ok \in FetchResults(t.url) :
        LET B == t.builder
            webIdNode == t.url
            fetched == Loaded(t.url, ok)
            rejected == notAPerson(fetched, webIdNode)
            store == addMember(fetched, B, webIdNode)
        IN  /\ requested' = Remembered(t.url, ok)
            /\ pending' = pending (-) SetToBag({t})
            /\ IF ~ok
               THEN /\ kb' = kb
                    /\ element' = Append(element,
                           errorMessageBlock(CouldNotLoadWebId, <<>>))
                    /\ lastOp' = [NoOp EXCEPT !.op = "add", !.node = webIdNode,
                           !.builder = B,
                           !.settled = "rejected", !.error = FetchError,
                           !.calls = onGroupChanged(B, FetchError, Undefined,
                                                    Undefined),
                           !.kbBefore = kb]
               ELSE /\ kb' = store
                    /\ element' = << GroupBuilder_render(B, store) >>
                           \o (IF rejected
                               THEN << errorMessageBlock(CouldNotLoadWebId, <<>>) >>
                               ELSE <<>>)
                    /\ lastOp' = [NoOp EXCEPT !.op = "add", !.node = webIdNode,
                           !.builder = B,
                           !.settled = IF rejected THEN "rejected" ELSE "resolved",
                           !.value = IF rejected THEN Undefined ELSE webIdNode,
                           !.error = IF rejected THEN OnlyPeopleError ELSE NoError,
                           !.calls = onGroupChanged(B, NoError, Added, webIdNode),
                           !.kbBefore = fetched, !.rendered = TRUE]
            /\ UNCHANGED <<typeIndexDoc, selectedGroupNode, creates, nRender,
                           opsLeft>>

\* handleRemove removing the member's statement of whichever graph
handleRemove_AnyGraph(store, B, webIdNode) ==
    LET st == St(B.groupNode, hasMember, webIdNode, Undefined)
    IN  IF CanRemove(store, st)
        THEN [store |-> kbRemove(store, st), error |-> NoError,
              calls |-> onGroupChanged(B, NoError, Removed, webIdNode)]
        ELSE [store |-> store, error |-> RemoveError, calls |-> <<>>]

\* handleRemove(webIdNode)(event), up to its render(): the store it leaves,
\* the error it catches and the calls groupChangedCb gets
handleRemove(store, B, webIdNode) ==
    LET st == St(B.groupNode, hasMember, webIdNode, B.groupGraph)
    IN  IF CanRemove(store, st)
        THEN [store |-> kbRemove(store, st), error |-> NoError,
              calls |-> onGroupChanged(B, NoError, Removed, webIdNode)]
        ELSE [store |-> store, error |-> RemoveError, calls |-> <<>>]

\* handleRemove's catch handler: the block that names the member by its
\* foaf:name when the store has a non-empty one, else by its identifier
removeErrorBlock(store, webIdNode) ==
    LET name == any(store, webIdNode, foafName)
    IN  errorMessageBlock(CouldNotRemove,
            IF name # Undefined /\ name # <<"">> THEN name ELSE webIdNode)

\* click on the Remove control of a member row
ClickRemove ==
    /\ opsLeft > 0
    /\ \E i \in DropContainers : \E row \in KidsOf(i, "person") :
        LET B == element[i].builder
            webIdNode == row[2]
            r == handleRemove(kb, B, webIdNode)
            \* the catch handler appends its block to this.element ...
            caught == IF r.error = NoError THEN element
                      ELSE Append(element, removeErrorBlock(kb, webIdNode))
            \* ... and this.render() empties this.element (innerHTML = '')
            \* before it appends the new dropContainer
            emptied == SubSeq(caught, 1, 0)
        IN  /\ kb' = r.store
            /\ element' = Append(emptied, GroupBuilder_render(B, r.store))
            /\ lastOp' = [NoOp EXCEPT !.op = "remove", !.node = webIdNode,
                   !.builder = B,
                   !.nodes = IF r.error = NoError THEN <<>>
                             ELSE removeErrorBlock(kb, webIdNode).text,
                   !.error = r.error, !.calls = r.calls,
                   !.kbBefore = kb, !.rendered = TRUE]
    /\ opsLeft' = opsLeft - 1
    /\ UNCHANGED <<requested, typeIndexDoc, selectedGroupNode, pending, creates,
                   nRender>>

\* a name is typed into the group-name field: setGroupName(event.target.value)
InputName ==
    /\ opsLeft > 0
    /\ \E i \in DropContainers : \E name \in Names :
        /\ kb' = setGroupName(kb, element[i].builder.groupNode, name)
        /\ element' = [element EXCEPT ![i].kids[1][3] = name]
        /\ lastOp' = [NoOp EXCEPT !.op = "setGroupName",
                        !.builder = element[i].builder,
                        !.node = element[i].builder.groupNode, !.value = name,
                        !.kbBefore = kb]
    /\ opsLeft' = opsLeft - 1
    /\ UNCHANGED <<requested, typeIndexDoc, selectedGroupNode, pending, creates,
                   nRender>>

\* click on Done: doneBuildingCb(groupNode)
ClickDone ==
    /\ opsLeft > 0
    /\ \E i \in DropContainers :
        LET B == element[i].builder
        IN  /\ kb' = kb
            /\ IF B.doneBuildingCb = OnSelectGroupCb
               THEN onSelectGroup(B.groupNode, pending)
               ELSE UNCHANGED <<selectedGroupNode, element, pending, nRender>>
            /\ lastOp' = [NoOp EXCEPT !.op = "done", !.node = B.groupNode,
                   !.builder = B,
                   !.rendered = (B.doneBuildingCb = OnSelectGroupCb)]
    /\ opsLeft' = opsLeft - 1
    /\ UNCHANGED <<requested, typeIndexDoc, creates>>

\* webClient.patch(...).then(...) adding the statements whatever the PATCH did
patchThenAdd_Always(store, ok, groupNode, namedGraph) ==
    kbAddAll(store, << typeStatement(groupNode, namedGraph),
                       nameStatement(groupNode, namedGraph) >>)

\* webClient.patch(namedGraph.value, [], [typeStatement, nameStatement])
\*   .then(() => kb.add([typeStatement, nameStatement])): the store it leaves
\* when the PATCH ends with `ok`
patchThenAdd(store, ok, groupNode, namedGraph) ==
    IF ok
    THEN kbAddAll(store, << typeStatement(groupNode, namedGraph),
                            nameStatement(groupNode, namedGraph) >>)
    ELSE store

\* a PATCH of createNewGroup ends; the handlers chained on it run
PatchDone ==
    \E t \in Tasks("patch") : \E ok \in BOOLEAN :
        LET c == creates[t.id]
            patched == IF ok THEN c.patched \cup {t.url} ELSE c.patched
            settles == c.settled = "pending"
                       /\ (~ok \/ patched = c.attempted)
            result == createNewGroupResult(c)
            B == Builder(Field(result, "graphNode"), Field(result, "groupNode"),
                         OnSelectGroupCb, FALSE)
            error == IF ok THEN NoError ELSE CreateGroupError(t.url)
        IN  /\ pending' = pending (-) SetToBag({t})
            /\ kb' = patchThenAdd(kb, ok, t.node, t.url)
            /\ creates' = [creates EXCEPT ![t.id] =
                   [c EXCEPT !.patched = patched,
                             !.failed = IF ok THEN @ ELSE @ \cup {t.url},
                             !.settled = IF ~settles THEN @
                                         ELSE IF ok THEN "resolved" ELSE "rejected",
                             !.error = IF settles THEN error ELSE @,
                             \* the containers render had made by then
                             !.settledAt = IF settles THEN nRender ELSE @]]
            /\ element' =
                 IF ~settles THEN element
                 ELSE IF ok THEN << GroupBuilder_render(B, kb') >>
                 ELSE Append(element, errorMessageBlock(ErrorCreatingGroup, error))
            /\ lastOp' = [NoOp EXCEPT !.op = "patch", !.id = t.id,
                   !.node = t.url,
                   !.settled = IF settles
                               THEN (IF ok THEN "resolved" ELSE "rejected")
                               ELSE "none",
                   !.error = IF settles THEN error ELSE NoError,
                   !.kbBefore = kb, !.rendered = settles /\ ok]
            /\ UNCHANGED <<requested, typeIndexDoc, selectedGroupNode, nRender,
                           opsLeft>>

-----------------------------------------------------------------------------
(* The whole pane *)

HomeRegistration == Registration(Reg1, AddressBook, HomeBookNode)

Init ==
    /\ kb = <<>>
    /\ requested = {}
    /\ typeIndexDoc \in {HomeRegistration, <<>>}
    /\ element = <<>>
    /\ selectedGroupNode = Undefined
    /\ pending = EmptyBag
    /\ creates = <<>>
    /\ nRender = 0
    /\ opsLeft = MaxOps
    /\ lastOp = NoOp

Next ==
    \/ CallRender
    \/ ClickChangeGroup
    \/ FindGroupIndexDone
    \/ ClickChooseExistingGroup
    \/ LoadGroupsDone
    \/ ClickGroup
    \/ ClickCreateNewGroup
    \/ PatchDone
    \/ Drop
    \/ AddDone
    \/ ClickRemove
    \/ InputName
    \/ ClickDone

Spec == Init /\ [][Next]_vars

-----------------------------------------------------------------------------
(* The GroupBuilder alone, as a page may construct it on a group of the store *)

EditorNameStatements ==
    {<<>>,
     << St(Friends, fn, <<"Friends">>, FriendsGraph) >>,
     << St(Friends, fn, <<"Friends">>, FriendsGraph),
        St(Friends, fn, <<"Friends">>, HomeGroupIndexUrl) >>}

EditorMemberStatements ==
    {<<>>,
     << St(Friends, hasMember, Bob, FriendsGraph) >>,
     << St(Friends, hasMember, Bob, HomeGroupIndexUrl) >>,
     << St(Friends, hasMember, Bob, HomeGroupIndexUrl),
        St(Friends, hasMember, Acme, FriendsGraph) >>}

InitEditor ==
    /\ kb \in {n \o m : n \in EditorNameStatements, m \in EditorMemberStatements}
    /\ requested = {}
    /\ typeIndexDoc = <<>>
    /\ \E groupGraph \in {FriendsGraph, Undefined} : \E groupChangedCb \in BOOLEAN :
         element = << GroupBuilder_render(
                        Builder(groupGraph, Friends, PageCb, groupChangedCb), kb) >>
    /\ selectedGroupNode = Undefined
    /\ pending = EmptyBag
    /\ creates = <<>>
    /\ nRender = 0
    /\ opsLeft = MaxEditorOps
    /\ lastOp = NoOp

NextEditor ==
    \/ Drop
    \/ AddDone
    \/ ClickRemove
    \/ InputName
    \/ ClickDone

SpecEditor == InitEditor /\ [][NextEditor]_vars

-----------------------------------------------------------------------------
(* The address-book lookup alone, over many type-index documents *)

RECURSIVE SeqsUpTo(_, _)
SeqsUpTo(S, n) ==
    IF n = 0 THEN {<<>>}
    ELSE LET shorter == SeqsUpTo(S, n - 1)
         IN  shorter \cup {Append(q, c) : q \in shorter, c \in S}

BookXTtl == <<"b", "o", "o", "k", "x", "t", "t", "l">>
UrlHeads == {<<>>, HomeBase, <<"h", "#">>, BookTtl \o <<"/">>}
UrlMiddles == {BookTtl, BookXTtl, <<"b", "o", "o", "k">>}
UrlTails ==
    {<<>>, <<"/">>, <<"#">> \o BookTtl}
        \cup {<<"#">> \o f : f \in SeqsUpTo({"t", "#"}, MaxFrag)}
InstanceUrls == {h \o m \o t : h \in UrlHeads, m \in UrlMiddles, t \in UrlTails}

TypeIndexDocs ==
    {<<>>, << St(Reg1, forClass, AddressBook, TypeIndexUrl) >>}
        \cup {Registration(Reg1, class, url) :
                  class \in {AddressBook, OtherClass}, url \in InstanceUrls}
        \cup {<< St(Reg1, forClass, AddressBook, TypeIndexUrl) >>
                  \o Registration(Reg2, AddressBook, HomeBookNode),
              Registration(Reg1, OtherClass, HomeBookNode)
                  \o Registration(Reg2, AddressBook, HomeBookNode)}

InitLocate ==
    /\ kb = <<>>
    /\ requested = {}
    /\ typeIndexDoc \in TypeIndexDocs
    /\ element = <<>>
    /\ selectedGroupNode \in {Undefined, Friends}
    /\ pending = EmptyBag
    /\ creates = <<>>
    /\ nRender = 0
    /\ opsLeft = MaxLocateOps
    /\ lastOp = NoOp

NextLocate ==
    \/ CallRender
    \/ ClickChangeGroup
    \/ FindGroupIndexDone
    \/ ClickChooseExistingGroup
    \/ LoadGroupsDone
    \/ ClickGroup

SpecLocate == InitLocate /\ [][NextLocate]_vars

-----------------------------------------------------------------------------
(* Properties *)

NameStatements(store, groupNode) ==
    statementsMatching(store, groupNode, fn, Undefined, Undefined)

MemberStatements(store, groupNode, webIdNode, graph) ==
    statementsMatching(store, groupNode, hasMember, webIdNode, graph)

Created(groupNode) ==
    \E k \in 1..Len(creates) : creates[k].groupNode = groupNode

\* C1: in createNewGroup, when the PATCH of the group's own resource fails,
\* the PATCH of the group index is never attempted and the operation fails
\* with a CreateGroupError naming the URL of the group's own resource.
C1_OwnPatchFailureStopsIndexPatch ==
    \A k \in 1..Len(creates) :
        LET c == creates[k]
        IN  c.groupGraphNode \in c.failed
                => /\ c.groupIndexNode \notin c.attempted
                   /\ c.settled = "rejected"
                   /\ c.error = CreateGroupError(c.groupGraphNode)

\* C2 as stated: after setGroupName(name) the store never holds two name
\* statements for the group node.
C2_NeverTwoNameStatements ==
    lastOp.op = "setGroupName"
        => Len(NameStatements(kb, lastOp.node)) < 2

\* C2 as amended: after setGroupName(name) the store never holds two name
\* statements for the group node that differ in their name: every name
\* statement of the node, in whichever graph, has the new name.
C2_NeverTwoDifferentNames ==
    lastOp.op = "setGroupName"
        => LET names == NameStatements(kb, lastOp.node)
           IN  \A i \in 1..Len(names) : names[i][3] = lastOp.value

\* a group createNewGroup has just created is renamed: it has a name
\* statement in its own graph and one in the index graph
C2_Witness ==
    /\ lastOp.op = "setGroupName"
    /\ Created(lastOp.node)
    /\ lastOp.value # UntitledGroup
    /\ Len(NameStatements(lastOp.kbBefore, lastOp.node)) = 2
    /\ Len(NameStatements(kb, lastOp.node)) = 2

\* C3: adding the same member identifier twice to the same group through
\* GroupBuilder.add never yields two membership statements for the same
\* (group, member, graph), whether the adds follow each other or overlap.
C3_NoDuplicateMembership ==
    \A i, j \in 1..Len(kb) :
        (i < j /\ kb[i][2] = hasMember) => kb[i] # kb[j]

\* a second add of an identifier has run its callback and found the statement
\* the first add had put in the store
C3_Witness ==
    /\ lastOp.op = "add"
    /\ lastOp.node = Amy
    /\ MemberStatements(lastOp.kbBefore, lastOp.builder.groupNode, Amy,
                        lastOp.builder.groupGraph) # <<>>
    /\ kb = lastOp.kbBefore

\* C4: the remove handler, invoked for a member with no membership statement
\* of the group in the editor's graph, fails with a remove error, leaves the
\* store as it was and does not call the changed-callback with 'removed'.
C4_FailedRemoveLeavesStore ==
    (/\ lastOp.op = "remove"
     /\ MemberStatements(lastOp.kbBefore, lastOp.builder.groupNode, lastOp.node,
                         lastOp.builder.groupGraph) = <<>>)
        => /\ lastOp.error = RemoveError
           /\ kb = lastOp.kbBefore
           /\ \A i \in 1..Len(lastOp.calls) : lastOp.calls[i][2] # Removed

\* the Remove control of a row was clicked and kb.remove threw, in an editor
\* that was given a changed-callback
C4_Witness ==
    /\ lastOp.op = "remove"
    /\ lastOp.error = RemoveError
    /\ lastOp.builder.groupChangedCb
    /\ MemberStatements(kb, lastOp.builder.groupNode, lastOp.node, Undefined) # <<>>

DocLacksAddressBook ==
    \A i \in 1..Len(typeIndexDoc) :
        ~(typeIndexDoc[i][2] = forClass /\ typeIndexDoc[i][3] = AddressBook)

Fetched(url) == <<url, "fetched">> \in requested

C6_LookupFailureShowsError ==
    (lastOp.op = "findGroupIndex" /\ lastOp.settled = "rejected")
        => /\ ErrorShown(CouldFindYourGroups)
           /\ ~Shown("chooseExistingGroupButton")
           /\ ~Shown("createNewGroupButton")

\* the lookup of a render has failed for want of a registration: the mount
\* point holds the empty container and the error block
C6_Witness ==
    /\ lastOp.op = "findGroupIndex"
    /\ lastOp.error = NoAddressBookError
    /\ Len(element) = 2
    /\ element[1] = Container(lastOp.id, <<>>)
    /\ element[2] = errorMessageBlock(CouldFindYourGroups, NoAddressBookError)

\* the document of webId declares type Person
DeclaresPerson(webId) ==
    \E i \in 1..Len(WebDoc(webId)) :
        WebDoc(webId)[i] = St(webId, rdfType, Person, webId)

RowShown(webIdNode) ==
    \E i \in DropContainers : \E row \in KidsOf(i, "person") : row[2] = webIdNode

\* C7: when add is called with an identifier whose fetch succeeds and whose
\* resource declares type Person, the store holds the membership statement,
\* the changed-callback is called exactly once with (null, 'added', member),
\* the operation returns the member node and the editor is re-rendered with a
\* row for the member.
C7_PersonIsAdded ==
    (lastOp.op = "add" /\ Fetched(lastOp.node) /\ DeclaresPerson(lastOp.node))
        => /\ MemberStatements(kb, lastOp.builder.groupNode, lastOp.node,
                               lastOp.builder.groupGraph) # <<>>
           /\ lastOp.builder.groupChangedCb
                => lastOp.calls = << <<NoError, Added, lastOp.node>> >>
           /\ lastOp.settled = "resolved"
           /\ lastOp.value = lastOp.node
           /\ lastOp.rendered
           /\ RowShown(lastOp.node)

\* the instance URL the type-index document registers for class AddressBook
RegisteredInstances ==
    {typeIndexDoc[j][3] : j \in {j \in 1..Len(typeIndexDoc) :
        /\ typeIndexDoc[j][2] = instanceP
        /\ \E i \in 1..Len(typeIndexDoc) :
              /\ typeIndexDoc[i][2] = forClass
              /\ typeIndexDoc[i][3] = AddressBook
              /\ typeIndexDoc[i][1] = typeIndexDoc[j][1]}}

\* the prefixes of url that 'book.ttl' or 'book.ttl#<fragment>' follows to the end
BookPrefixes(url) ==
    {Prefix(url, n) : n \in {n \in 0..Len(url) :
        /\ HasAt(url, BookTtl, n + 1)
        /\ \/ n + Len(BookTtl) = Len(url)
           \/ url[n + Len(BookTtl) + 1] = "#"}}

\* url without its fragment
WithoutFragment(url) ==
    LET hashes == {i \in 1..Len(url) : url[i] = "#"}
    IN  IF hashes = {} THEN url
        ELSE Prefix(url, (CHOOSE i \in hashes : \A k \in hashes : i <= k) - 1)

\* C8: for a registration whose instance URL ends in 'book.ttl' or
\* 'book.ttl#<fragment>', findGroupIndex returns the instance URL with that
\* suffix removed as the base URL, base + 'groups.ttl' as the group-index URL
\* and base + 'Group/' as the group-container URL.
C8_BaseUrlIsInstanceWithoutBook ==
    (lastOp.op = "findGroupIndex" /\ lastOp.settled = "resolved")
        => \A url \in RegisteredInstances :
             LET base == lastOp.nodes[1]
                 doc == WithoutFragment(url)
             IN  BookPrefixes(url) # {}
                   => /\ base \in BookPrefixes(url)
                      /\ Prefix(doc, Len(doc) - Len(BookTtl)) \in BookPrefixes(url)
                            => base = Prefix(doc, Len(doc) - Len(BookTtl))
                      /\ lastOp.nodes[2] = base \o GroupsTtl
                      /\ lastOp.nodes[3] = base \o GroupSlash

\* the lookup has resolved for an instance URL that carries a fragment
C8_Witness ==
    /\ lastOp.op = "findGroupIndex"
    /\ lastOp.settled = "resolved"
    /\ typeIndexDoc = Registration(Reg1, AddressBook, HomeBase \o BookTtl \o <<"#", "t">>)
    /\ lastOp.nodes = <<HomeBase, HomeBase \o GroupsTtl, HomeBase \o GroupSlash>>

\* C9: when the AddressBook registration has no 'instance' statement,
\* findGroupIndex fails with the 'incomplete address book registration' error
\* and stops there: nothing is thrown from the fetch callback.
C9_IncompleteRegistrationStops ==
    (lastOp.op = "findGroupIndex" /\ lastOp.error = IncompleteRegistrationError)
        => lastOp.thrown = NoError

\* C10: when add fetches a resource whose declared type is missing or is not
\* Person, the operation fails with the 'only people supported' error, and
\* yet the membership statement is added (if absent), the changed-callback is
\* called with (null, 'added', member) and the editor is re-rendered.
C10_NonPersonIsAddedAnyway ==
    (lastOp.op = "add" /\ Fetched(lastOp.node) /\ ~DeclaresPerson(lastOp.node))
        => LET B == lastOp.builder
               had == MemberStatements(lastOp.kbBefore, B.groupNode, lastOp.node,
                                       B.groupGraph) # <<>>
           IN  /\ lastOp.settled = "rejected"
               /\ lastOp.error = OnlyPeopleError
               /\ kb = IF had THEN lastOp.kbBefore
                       ELSE Append(lastOp.kbBefore,
                                St(B.groupNode, hasMember, lastOp.node,
                                   IF B.groupGraph = Undefined THEN DefaultGraph
                                   ELSE B.groupGraph))
               /\ B.groupChangedCb
                    => lastOp.calls = << <<NoError, Added, lastOp.node>> >>
               /\ lastOp.rendered
               /\ RowShown(lastOp.node)

\* the add of a resource that declares no type has been rejected and has
\* put a new membership statement in the store
C10_Witness ==
    /\ lastOp.op = "add"
    /\ lastOp.node = Zed
    /\ lastOp.error = OnlyPeopleError
    /\ lastOp.builder.groupChangedCb
    /\ Len(kb) = Len(lastOp.kbBefore) + 1
    /\ MemberStatements(kb, lastOp.builder.groupNode, Zed,
                        lastOp.builder.groupGraph) # <<>>

Holds(store, st) == \E i \in 1..Len(store) : store[i] = st

\* the graphs whose PATCH of the k-th createNewGroup has not ended
PatchesInFlight(k) == {t.url : t \in {t \in Tasks("patch") : t.id = k}}

\* C11: for each of the two graphs createNewGroup writes, the store holds
\* statements of the new group in that graph only once that graph's PATCH has
\* succeeded; when a PATCH has failed the operation has failed with a
\* CreateGroupError; and what the other PATCH did is kept: its statements stay
\* in the store and no further request is sent for either graph.
C11_MirrorOnlyAfterOwnPatch ==
    \A k \in 1..Len(creates) :
        LET c == creates[k]
        IN  /\ \A g \in c.attempted :
                 /\ (\E i \in 1..Len(kb) :
                        kb[i][1] = c.groupNode /\ kb[i][4] = g)
                      => g \in c.patched
                 /\ g \in c.patched
                      => /\ Holds(kb, typeStatement(c.groupNode, g))
                         /\ Len(statementsMatching(kb, c.groupNode, fn,
                                                   Undefined, g)) = 1
            /\ c.failed # {}
                 => /\ c.settled = "rejected"
                    /\ \E g \in c.failed : c.error = CreateGroupError(g)
            /\ PatchesInFlight(k) = c.attempted \ (c.patched \cup c.failed)

\* the PATCH of the group's own resource has succeeded after the failure of
\* the index PATCH had been reported: its statements are in the store
C11_Witness ==
    /\ lastOp.op = "patch"
    /\ \E k \in 1..Len(creates) :
         LET c == creates[k]
         IN  /\ lastOp.node = c.groupGraphNode
             /\ c.failed = {c.groupIndexNode}
             /\ c.patched = {c.groupGraphNode}
             /\ c.error = CreateGroupError(c.groupIndexNode)
             /\ Holds(kb, nameStatement(c.groupNode, c.groupGraphNode))
             /\ ~Holds(kb, nameStatement(c.groupNode, c.groupIndexNode))

\* C12: when the remove handler has failed to remove a membership statement,
\* the mount point of the editor holds, once the handler has finished, an
\* error block that names the member (by its name when the store has one,
\* else by its identifier).
C12_RemoveErrorIsShown ==
    (lastOp.op = "remove" /\ lastOp.error = RemoveError)
        => \E i \in 1..Len(element) :
              /\ element[i].kind = "error"
              /\ element[i].text = lastOp.nodes

\* the children of the mount point, the identity of each container forgotten
Contents(el) == [i \in 1..Len(el) |-> [el[i] EXCEPT !.id = 0]]

\* what one call of PeoplePicker.render and the end of its lookup leave in
\* the mount point, for the selection and the type-index fetch as they are
RenderedOnce ==
    IF selectedGroupNode # Undefined
    THEN << Container(0,
              << <<"selectedGroup", selectedGroupNode,
                   GroupLabel(kb, selectedGroupNode)>>,
                 <<"changeGroupButton", Undefined, Undefined>> >>) >>
    ELSE afterFindGroupIndex(<< Container(0, <<>>) >>, 0,
                             findGroupIndex(Fetched(TypeIndexUrl), kb))

\* C13: PeoplePicker.render is idempotent: when render has been called twice
\* and nothing else was done, then once the lookups the two calls started have
\* ended, in whichever order, the mount point holds what one call leaves: the
\* same containers, action buttons and error blocks.
C13_RenderTwiceAsOnce ==
    (/\ nRender = 2
     /\ opsLeft = MaxLocateOps - 2
     /\ Tasks("findGroupIndex") = {})
        => Contents(element) = RenderedOnce

\* C14: in the Picker, a step that selects a group (a click on a group of the
\* GroupPicker list, or on Done in the GroupBuilder the Picker opened) stores
\* the group node as the selection and leaves the summary of that group in
\* the mount point without starting a type-index fetch; a click on 'Change
\* group' clears the selection and leaves the empty container of the discovery
\* branch, with exactly one more type-index fetch in flight.
C14_SelectThenChangeGroup ==
    [][ /\ ( \/ lastOp'.op = "selectGroup"
             \/ /\ lastOp'.op = "done"
                /\ lastOp'.builder.doneBuildingCb = OnSelectGroupCb )
            => /\ lastOp'.node # Undefined
               /\ selectedGroupNode' = lastOp'.node
               /\ element' =
                    << Container(nRender',
                         << <<"selectedGroup", lastOp'.node,
                              GroupLabel(kb', lastOp'.node)>>,
                            <<"changeGroupButton", Undefined, Undefined>> >>) >>
               /\ pending' = pending
        /\ lastOp'.op = "changeGroup"
            => /\ selectedGroupNode' = Undefined
               /\ element' = << Container(nRender', <<>>) >>
               /\ pending' = pending (+) SetToBag({
                      Task("findGroupIndex", nRender', TypeIndexUrl, NoBuilder,
                           Undefined)})
               /\ nRender' = nRender + 1
      ]_vars

\* 'Change group' has been clicked on the summary of a group that
\* createNewGroup made and Done handed back: one lookup is in flight
C14_Witness ==
    /\ lastOp.op = "changeGroup"
    /\ selectedGroupNode = Undefined
    /\ \E k \in 1..Len(creates) : creates[k].settled = "resolved"
    /\ BagCardinality(pending) = 1
    /\ \E t \in Tasks("findGroupIndex") : t.id = nRender
    /\ element = << Container(nRender, <<>>) >>

Graphs(store) == {store[i][4] : i \in 1..Len(store)}

NamesIn(store, groupNode, graph) ==
    statementsMatching(store, groupNode, fn, Undefined, graph)

\* the statements of the store that are not name statements of groupNode
NotNames(store, groupNode) ==
    LET other(st) == ~(st[1] = groupNode /\ st[2] = fn)
    IN  SelectSeq(store, other)

\* C15: setGroupName(name) replaces name statements one for one: afterwards
\* every name statement of the group node has the new value, each graph that
\* held a name statement of the node holds exactly one (and no other graph
\* holds any), the other statements are as they were, and when the node had
\* no name statement the store is unchanged.
C15_RenameIsOneForOne ==
    lastOp.op = "setGroupName"
        => LET before == lastOp.kbBefore
               node == lastOp.node
               names == NameStatements(kb, node)
           IN  /\ \A i \in 1..Len(names) : names[i][3] = lastOp.value
               /\ \A g \in Graphs(before) \cup Graphs(kb) :
                    /\ NamesIn(before, node, g) # <<>>
                         => Len(NamesIn(kb, node, g)) = 1
                    /\ Len(NamesIn(kb, node, g)) = Len(NamesIn(before, node, g))
               /\ NotNames(kb, node) = NotNames(before, node)
               /\ NameStatements(before, node) = <<>> => kb = before

\* a group with a name statement in its own graph and one in the index graph
\* has been renamed in an editor a page opened on it
C15_Witness ==
    /\ lastOp.op = "setGroupName"
    /\ creates = <<>>
    /\ lastOp.value = <<"B">>
    /\ Len(NamesIn(lastOp.kbBefore, Friends, FriendsGraph)) = 1
    /\ Len(NamesIn(lastOp.kbBefore, Friends, HomeGroupIndexUrl)) = 1
    /\ NamesIn(kb, Friends, FriendsGraph)
         = << St(Friends, fn, <<"B">>, FriendsGraph) >>
    /\ NamesIn(kb, Friends, HomeGroupIndexUrl)
         = << St(Friends, fn, <<"B">>, HomeGroupIndexUrl) >>

\* the fetcher has failed to fetch url
Failed(url) == <<url, "failed">> \in requested

\* C16: when the fetch of the dropped identifier fails, the step in which add
\* learns of it calls the changed-callback, if the editor has one, once with
\* the fetch error alone, rejects the promise add returned with that error,
\* leaves the store as it was and does not render the editor again: the
\* children of the mount point stay, and the drop target's catch handler
\* appends its error block after them.
C16_FailedFetchChangesNothing ==
    [][ (lastOp'.op = "add" /\ <<lastOp'.node, "failed">> \in requested')
            => /\ lastOp'.calls =
                    IF lastOp'.builder.groupChangedCb
                    THEN << <<FetchError, Undefined, Undefined>> >>
                    ELSE <<>>
               /\ lastOp'.settled = "rejected"
               /\ lastOp'.error = FetchError
               /\ kb' = kb
               /\ ~lastOp'.rendered
               /\ element' = Append(element,
                                errorMessageBlock(CouldNotLoadWebId, <<>>))
      ]_vars

\* the fetch of a dropped identifier has failed in an editor that was given a
\* changed-callback: the callback got the error and the drop zone is still
\* the first child of the mount point
C16_Witness ==
    /\ lastOp.op = "add"
    /\ Failed(lastOp.node)
    /\ lastOp.builder.groupChangedCb
    /\ lastOp.calls = << <<FetchError, Undefined, Undefined>> >>
    /\ Len(element) = 2
    /\ element[1].kind = "dropContainer"
    /\ element[2].kind = "error"

\* C17: the GroupBuilder the Picker opens after createNewGroup has succeeded
\* is given the node of the created group and the node of that group's own
\* graph: its groupGraph is never undefined.
C17_EditorGetsGroupGraph ==
    \A i \in DropContainers :
        LET B == element[i].builder
        IN  /\ B.groupGraph # Undefined
            /\ \E k \in 1..Len(creates) :
                  /\ creates[k].groupNode = B.groupNode
                  /\ creates[k].groupGraphNode = B.groupGraph

\* the mount point holds the summary of the selected group and nothing else
SummaryShown ==
    /\ Len(element) = 1
    /\ element[1].kind = "container"
    /\ element[1].kids =
         << <<"selectedGroup", selectedGroupNode,
              GroupLabel(kb, selectedGroupNode)>>,
            <<"changeGroupButton", Undefined, Undefined>> >>

\* C18: when a type-index fetch that an earlier render started ends while the
\* Picker holds a selected group, the mount point still shows the summary of
\* that group: the 'pick existing' and 'create new' actions do not replace it.
C18_StaleLookupKeepsSummary ==
    (lastOp.op = "findGroupIndex" /\ selectedGroupNode # Undefined)
        => /\ Shown("selectedGroup")
           /\ ~Shown("chooseExistingGroupButton")
           /\ ~Shown("createNewGroupButton")

\* C19: once Done has handed the group back to the Picker, an add whose fetch
\* was in flight when Done was clicked does not, when it ends, put the editor
\* into the Picker's mount point or anything else: the summary stays.
C19_StaleAddKeepsSummary ==
    (/\ lastOp.op = "add"
     /\ lastOp.builder.doneBuildingCb = OnSelectGroupCb
     /\ selectedGroupNode = lastOp.builder.groupNode)
        => /\ DropContainers = {}
           /\ SummaryShown

\* C20: a loadGroups that a GroupPicker starts after createNewGroup has fully
\* succeeded for the same address book (the picker's container was rendered
\* after the creation had ended) and that reads the store after its fetch of
\* the group index resolves with a sequence that holds the created group's
\* node.
C20_CreatedGroupIsListed ==
    (lastOp.op = "loadGroups" /\ lastOp.settled = "resolved")
        => \A k \in 1..Len(creates) :
             LET c == creates[k]
             IN  (/\ c.settled = "resolved"
                  /\ c.groupIndexNode = lastOp.node \o GroupsTtl
                  /\ lastOp.id > c.settledAt)
                    => c.groupNode \in Range(lastOp.nodes)

====
